---- MODULE Spec2Model ----
(***************************************************************************)
(* A model of iron-session (src/src/index.ts): the IronStore that owns an  *)
(* in-memory bag and seals / unseals it with @hapi/iron, and the           *)
(* IronSession handle that binds one store to the cookie of one            *)
(* request / response pair.                                                *)
(*                                                                         *)
(* Strings are TLA+ strings.  A JavaScript number that counts seconds or   *)
(* milliseconds is the record [hi, lo] standing for hi * 10^6 + lo,        *)
(* because the program takes time-to-live values up to and beyond 2^31     *)
(* seconds and multiplies them by 1000, which does not fit the 32-bit      *)
(* integers of TLC.                                                        *)
(* The cryptography of @hapi/iron is symbolic: a ciphertext and a MAC are  *)
(* records of what they were computed from, so that two of them are equal  *)
(* exactly when key, salt and input are.                                   *)
(* An async operation (seal, unseal, restore, save, getIronSession) is two *)
(* steps: its call, which runs up to the await and fixes what Iron reads   *)
(* there (the bag or the sealed string, the password, the options, the     *)
(* clock), and the settling of its promise, which runs the rest.  Other    *)
(* operations, the clock and other calls may come in between.              *)
(***************************************************************************)
EXTENDS Integers, Sequences, FiniteSets, TLC

VARIABLES
    now,        \* Date.now(), in milliseconds
    ticks,      \* how often the clock has advanced
    wire,       \* the sealed token the client currently holds (or NoToken)
    origin,     \* how `wire` came to be: who sealed it, what, when (ghost)
    store,      \* the IronStore: sealPassword, unsealPassword, sealOptions
    session,    \* the IronSession: cookieName, cookieOptions
    unsealed,   \* IronStore.unsealed: the bag, key -> value
    heap,       \* the JavaScript objects that values may refer to
    held,       \* the object references the calling code holds
    req,        \* the request: pre-parsed cookies and raw Cookie header
    res,        \* the response's Set-Cookie header
    last,       \* the operation that ran last, with what it returned
    pending     \* the calls that wait at their await, in the order they were made

vars == <<now, ticks, wire, origin, store, session, unsealed, heap, held, req, res,
         last, pending>>

----------------------------------------------------------------------------
(* Program constants.                                                      *)

TIMESTAMP_SKEW_SEC == 60
MAX_TTL == 2147483647
DEFAULT_TTL == 30 * 24 * 60 * 60
MAX_COOKIE_SIZE == 4096

\* Iron.defaults of @hapi/iron, spread into sealOptions by the constructor.
IronDefaults ==
    [ saltBits |-> 256, ivBits |-> 128, digestBits |-> 256,
      minPasswordlength |-> 32, timestampSkewSec |-> 60,
      macPrefix |-> "Fe26.2" ]

\* DEFAULT_COOKIE_OPTIONS; `secure` is process.env.NODE_ENV === 'production'.
DEFAULT_COOKIE_OPTIONS(production) ==
    [ httpOnly |-> TRUE, path |-> "/", sameSite |-> "lax", secure |-> production ]

----------------------------------------------------------------------------
(* Bounds of the model.                                                    *)

MaxTicks == 2        \* clock advances in one behaviour
MaxAddr == 4         \* heap cells
MaxSetCookies == 2   \* values the Set-Cookie header may grow to
MaxPending == 2      \* calls that may wait at once

----------------------------------------------------------------------------
(* Strings and numbers.                                                    *)

Digits == <<"0", "1", "2", "3", "4", "5", "6", "7", "8", "9">>

DigitChars == {Digits[i] : i \in 1..10}

CharAt(str, i) == SubSeq(str, i, i)

\* /^\w+$/.test(str)
IsWord(str) ==
    LET WordChars ==
            DigitChars \cup {"_"} \cup
            {"a","b","c","d","e","f","g","h","i","j","k","l","m",
             "n","o","p","q","r","s","t","u","v","w","x","y","z"} \cup
            {"A","B","C","D","E","F","G","H","I","J","K","L","M",
             "N","O","P","Q","R","S","T","U","V","W","X","Y","Z"}
    IN  Len(str) > 0 /\ \A i \in 1..Len(str) : CharAt(str, i) \in WordChars

\* /^\d+$/ matches str
IsDigits(str) == Len(str) > 0 /\ \A i \in 1..Len(str) : CharAt(str, i) \in DigitChars

\* String(n) for an integer n >= 0
RECURSIVE IntToStr(_)
IntToStr(n) ==
    IF n < 10 THEN Digits[n + 1]
    ELSE IntToStr(n \div 10) \o Digits[(n % 10) + 1]

\* parseInt(str, 10) for a string of digits
RECURSIVE ParseInt(_)
ParseInt(str) ==
    IF Len(str) = 0 THEN 0
    ELSE LET DigitVal(c) == CHOOSE d \in 0..9 : Digits[d + 1] = c
         IN  10 * ParseInt(SubSeq(str, 1, Len(str) - 1)) + DigitVal(CharAt(str, Len(str)))

\* str.startsWith(prefix)
StartsWith(str, prefix) ==
    Len(str) >= Len(prefix) /\ SubSeq(str, 1, Len(prefix)) = prefix

----------------------------------------------------------------------------
(* Numbers.  [hi, lo] with 0 <= lo < 10^6 stands for hi * 10^6 + lo; hi    *)
(* is negative for a negative number.                                      *)

Million == 1000 * 1000

Num(h, l) == [hi |-> h + (l \div Million), lo |-> l % Million]

\* the number n, for n within the integers of TLC
Number(n) == Num(0, n)

NumAdd(a, b) == Num(a.hi + b.hi, a.lo + b.lo)

NumSub(a, b) == Num(a.hi - b.hi, a.lo - b.lo)

NumLeq(a, b) == a.hi < b.hi \/ (a.hi = b.hi /\ a.lo <= b.lo)

NumIsZero(a) == a.hi = 0 /\ a.lo = 0

\* x * 1000
TimesThousand(x) == Num(x.hi * 1000, x.lo * 1000)

\* Math.min(a, b)
Min(a, b) == IF NumLeq(a, b) THEN a ELSE b

\* n in six digits
Pad6(n) ==
    IF n < 10 THEN "00000" \o IntToStr(n)
    ELSE IF n < 100 THEN "0000" \o IntToStr(n)
    ELSE IF n < 1000 THEN "000" \o IntToStr(n)
    ELSE IF n < 10000 THEN "00" \o IntToStr(n)
    ELSE IF n < 100000 THEN "0" \o IntToStr(n)
    ELSE IntToStr(n)

\* String(x)
NumToStr(x) ==
    LET abs == IF x.hi < 0 THEN NumSub(Number(0), x) ELSE x
        digits == IF abs.hi = 0 THEN IntToStr(abs.lo)
                  ELSE IntToStr(abs.hi) \o Pad6(abs.lo)
    IN  IF x.hi < 0 THEN "-" \o digits ELSE digits

\* parseInt(str, 10) for a string of digits
StrToNum(str) ==
    IF Len(str) <= 6 THEN Num(0, ParseInt(str))
    ELSE Num(ParseInt(SubSeq(str, 1, Len(str) - 6)),
             ParseInt(SubSeq(str, Len(str) - 5, Len(str))))

\* a count of milliseconds: sec seconds and msec milliseconds
Ms(sec, msec) == NumAdd(TimesThousand(Number(sec)), Number(msec))

\* sec * 1000, for sec within the integers of TLC
SecToMs(sec) == TimesThousand(Number(sec))

----------------------------------------------------------------------------
(* Password material.  An IronDenormalizedPassword is a string or a list   *)
(* of {id, secret}; `kind` is what `typeof denormalized` tells apart.      *)

PwString(str) == [kind |-> "string", str |-> str, list |-> <<>>]

PwList(list) == [kind |-> "list", str |-> "", list |-> list]

Entry(id, secret) == [id |-> id, secret |-> secret]

\* denormalized.length
PwLength(denormalized) ==
    IF denormalized.kind = "string" THEN Len(denormalized.str)
    ELSE Len(denormalized.list)

\* (the message quotes the word password in backquotes, left out here)
EmptyPasswordError == "Empty IronStore argument: password"

\* a key other than the id under which seal names the secret
PropertyKey_Default(n) == "default"

\* String(1): the property key that the literal { 1: ... } creates
PropertyKey(n) == IntToStr(n)

\* The last entry of the list that carries `id` (a later assignment to
\* normalized[id] replaces an earlier one).
LastIndexOf(list, id) ==
    CHOOSE i \in 1..Len(list) :
        /\ list[i].id = id
        /\ \A j \in (i + 1)..Len(list) : list[j].id # id

\* IronStore.normalizeSealPassword: [err, value], value an {id, secret}
normalizeSealPassword(denormalized) ==
    IF PwLength(denormalized) = 0
    THEN [err |-> EmptyPasswordError, value |-> Entry("", "")]
    ELSE IF denormalized.kind = "string"
    THEN [err |-> "", value |-> Entry("1", denormalized.str)]
    ELSE [err |-> "", value |-> denormalized.list[1]]

\* IronStore.normalizeUnsealPassword: [err, value], value a map id -> secret
normalizeUnsealPassword(denormalized) ==
    IF PwLength(denormalized) = 0
    THEN [err |-> EmptyPasswordError, value |-> [id \in {} |-> ""]]
    ELSE IF denormalized.kind = "string"
    THEN [err |-> "", value |-> [id \in {PropertyKey(1)} |-> denormalized.str]]
    ELSE [err |-> "",
          value |-> [id \in {denormalized.list[i].id : i \in 1..Len(denormalized.list)} |->
                        denormalized.list[LastIndexOf(denormalized.list, id)].secret]]

----------------------------------------------------------------------------
(* @hapi/iron, as IronStore calls it.  A sealed string                     *)
(*   prefix*id*salt*iv*ciphertext*expiration*macSalt*mac                   *)
(* is the sequence of its parts (what splitting it at the stars gives).  The     *)
(* prefix, id and expiration are text; the others are symbolic, with       *)
(* `flip` set once a character of the part has been altered.               *)

NoToken == [parts |-> <<>>]

Text(str) == [text |-> str]

Random(what, nonce) == [rand |-> what, n |-> nonce, flip |-> FALSE]

\* AES-256-CBC under the key derived from (secret, salt), with iv
Encrypt(secret, salt, iv, plain) ==
    [key |-> secret, salt |-> salt, iv |-> iv, plain |-> plain, flip |-> FALSE]

\* HMAC-SHA256 of `base` under the key derived from (secret, salt)
Hmac(secret, salt, base) ==
    [key |-> secret, salt |-> salt, base |-> base, flip |-> FALSE]

\* generateKey's checks of a password string
GenerateKeyError(secret) ==
    IF Len(secret) = 0 THEN "Empty password"
    ELSE IF Len(secret) < IronDefaults.minPasswordlength
    THEN "Password string too short (min 32 characters required)"
    ELSE ""

\* Iron.seal(object, password, options) at time tnow, drawing `nonce`:
\* [err, sealed].  `object` is the JSON text of the sealed object.
IronSeal(object, password, options, tnow, nonce) ==
    LET passwordId == password.id
        salt == Random("salt", nonce)
        iv == Random("iv", nonce)
        macSalt == Random("macSalt", nonce)
        expiration == IF NumIsZero(options.ttl) THEN ""
                      ELSE NumToStr(NumAdd(tnow, options.ttl))
        macBase == << Text(IronDefaults.macPrefix), Text(passwordId), salt, iv,
                      Encrypt(password.secret, salt, iv, object), Text(expiration) >>
    IN  IF passwordId # "" /\ ~IsWord(passwordId)
        THEN [err |-> "Invalid password id", sealed |-> NoToken]
        ELSE IF GenerateKeyError(password.secret) # ""
        THEN [err |-> GenerateKeyError(password.secret), sealed |-> NoToken]
        ELSE [err |-> "",
              sealed |-> [parts |-> macBase \o
                            << macSalt, Hmac(password.secret, macSalt, macBase) >>]]

\* decrypt(): the plaintext when key, salt and iv are those of the encryption
Decrypt(secret, salt, iv, encrypted) ==
    IF /\ "plain" \in DOMAIN encrypted
       /\ ~encrypted.flip
       /\ encrypted.key = secret /\ encrypted.salt = salt /\ encrypted.iv = iv
    THEN [err |-> "", plain |-> encrypted.plain]
    ELSE [err |-> "bad decrypt", plain |-> encrypted]

\* password[passwordId || 'default'], "" when the hash has no such key
LookupPassword(password, passwordId) ==
    LET key == IF passwordId # "" THEN passwordId ELSE "default"
    IN  IF key \in DOMAIN password THEN password[key] ELSE ""

\* Iron.unseal(sealed, password, options) at time tnow: [err, value]
IronUnseal(sealed, password, options, tnow) ==
    LET parts == sealed.parts
        fail(msg) == [err |-> msg, value |-> sealed]
    IN  IF Len(parts) # 8 THEN fail("Incorrect number of sealed components")
        ELSE
        LET macPrefix == parts[1].text
            passwordId == parts[2].text
            encryptionSalt == parts[3]
            encryptionIv == parts[4]
            encrypted == parts[5]
            expiration == parts[6].text
            hmacSalt == parts[7]
            hmac == parts[8]
            macBase == SubSeq(parts, 1, 6)
            secret == LookupPassword(password, passwordId)
        IN  IF macPrefix # IronDefaults.macPrefix THEN fail("Wrong mac prefix")
            ELSE IF expiration # "" /\ ~IsDigits(expiration)
            THEN fail("Invalid expiration")
            ELSE IF /\ expiration # ""
                    /\ NumLeq(StrToNum(expiration),
                             NumSub(tnow, SecToMs(options.timestampSkewSec)))
            THEN fail("Expired seal")
            ELSE IF secret = "" THEN fail("Cannot find password: " \o passwordId)
            ELSE IF GenerateKeyError(secret) # "" THEN fail(GenerateKeyError(secret))
            ELSE IF Hmac(secret, hmacSalt, macBase) # hmac THEN fail("Bad hmac value")
            ELSE
            LET decrypted == Decrypt(secret, encryptionSalt, encryptionIv, encrypted)
            IN  IF decrypted.err # "" THEN fail(decrypted.err)
                ELSE [err |-> "", value |-> decrypted.plain]

----------------------------------------------------------------------------
(* Values.  A value of the bag is a number, a string (kept by its length:  *)
(* its characters never matter here) or a reference to an object of the    *)
(* heap.  An object has one number field `n` and, optionally, one nested   *)
(* object `child`.  JSON text is the same tree with the objects inlined.   *)

VNum(n) == [t |-> "num", n |-> n]
VStr(len) == [t |-> "str", len |-> len]
VRef(a) == [t |-> "ref", a |-> a]
VUndefined == [t |-> "undefined"]

JNone == [t |-> "none"]
JObj(n, child) == [t |-> "obj", n |-> n, child |-> child]

Addr == 1..MaxAddr
FreeCell == [used |-> FALSE, n |-> 0, child |-> 0]
Cell(n, child) == [used |-> TRUE, n |-> n, child |-> child]
EmptyHeap == [a \in Addr |-> FreeCell]
EmptyBag == [k \in {} |-> VUndefined]

FreeAddrs(h) == {a \in Addr : ~h[a].used}

\* the cells an object is made of
RECURSIVE CellsOf(_, _)
CellsOf(h, a) ==
    IF a = 0 THEN {} ELSE {a} \cup CellsOf(h, h[a].child)

RootsOf(bag) == {bag[k].a : k \in {x \in DOMAIN bag : bag[x].t = "ref"}}

\* every cell reachable from a set of references
Reach(h, roots) == UNION {CellsOf(h, a) : a \in roots}

\* what the garbage collector leaves: the cells the bag or the caller reach
Collect(h, bag, refs) ==
    LET live == Reach(h, RootsOf(bag) \cup refs)
    IN  [a \in Addr |-> IF a \in live THEN h[a] ELSE FreeCell]

\* the JSON text of an object of the heap
RECURSIVE ObjJson(_, _)
ObjJson(h, a) ==
    JObj(h[a].n, IF h[a].child = 0 THEN JNone ELSE ObjJson(h, h[a].child))

\* JSON.stringify(value)
ValueJson(h, v) == IF v.t = "ref" THEN ObjJson(h, v.a) ELSE v

\* JSON.stringify(bag): key -> JSON text of its value
Stringify(h, bag) == [k \in DOMAIN bag |-> ValueJson(h, bag[k])]

\* how many cells the objects of a JSON text need
RECURSIVE JsonCells(_)
JsonCells(j) == IF j.t = "obj" THEN 1 + JsonCells(j.child) ELSE 0

\* A new object built from JSON text: [heap, value].  It takes the lowest
\* free address (the allocator's choice is not observable).
RECURSIVE Build(_, _)
Build(h, j) ==
    IF j.t # "obj" THEN [heap |-> h, value |-> j]
    ELSE LET a == CHOOSE x \in FreeAddrs(h) : \A b \in FreeAddrs(h) : x <= b
             h1 == [h EXCEPT ![a] = Cell(j.n, 0)]
             sub == Build(h1, j.child)
         IN  IF j.child.t = "none" THEN [heap |-> h1, value |-> VRef(a)]
             ELSE [heap |-> [sub.heap EXCEPT ![a] = Cell(j.n, sub.value.a)],
                   value |-> VRef(a)]

\* a clone that hands back the value it was given
Clone_Alias(h, v) == [heap |-> h, value |-> v]

\* clone(value): a deep copy, sharing nothing with the value copied
Clone(h, v) ==
    IF v.t = "ref" THEN Build(h, ObjJson(h, v.a)) ELSE [heap |-> h, value |-> v]

\* Bourne.parse(text) of a sealed bag: [heap, bag], every object new
RECURSIVE ParseInto(_, _, _)
ParseInto(h, json, keys) ==
    IF keys = {} THEN [heap |-> h, bag |-> EmptyBag]
    ELSE LET k == CHOOSE x \in keys : TRUE
             rest == ParseInto(h, json, keys \ {k})
             built == Build(rest.heap, json[k])
         IN  [heap |-> built.heap,
              bag |-> [x \in DOMAIN rest.bag \cup {k} |->
                          IF x = k THEN built.value ELSE rest.bag[x]]]

Parse(h, json) == ParseInto(h, json, DOMAIN json)

\* cells needed to parse a sealed bag
RECURSIVE BagCells(_, _)
BagCells(json, keys) ==
    IF keys = {} THEN 0
    ELSE LET k == CHOOSE x \in keys : TRUE
         IN  JsonCells(json[k]) + BagCells(json, keys \ {k})

\* the length of JSON text
RECURSIVE JsonLength(_)
JsonLength(j) ==
    IF j.t = "num" THEN Len(IntToStr(j.n))
    ELSE IF j.t = "str" THEN j.len + 2
    ELSE IF j.child.t = "none" THEN Len("{\"n\":") + Len(IntToStr(j.n)) + 1
    ELSE Len("{\"n\":") + Len(IntToStr(j.n)) + Len(",\"child\":")
         + JsonLength(j.child) + 1

RECURSIVE EntriesLength(_, _)
EntriesLength(json, keys) ==
    IF keys = {} THEN 0
    ELSE LET k == CHOOSE x \in keys : TRUE
         IN  Len(k) + 3 + JsonLength(json[k]) + EntriesLength(json, keys \ {k})

\* the length of JSON.stringify(bag)
BagJsonLength(json) ==
    LET n == Cardinality(DOMAIN json)
    IN  2 + EntriesLength(json, DOMAIN json) + (IF n > 1 THEN n - 1 ELSE 0)

----------------------------------------------------------------------------
(* What an operation leaves behind for the properties to read: its name,   *)
(* how it ended ("void", "true", "false", "value", "token" or "throw"),    *)
(* the message of the error it met, the sealed string it was given or      *)
(* returned with its origin, the value get() returned, the bag (as JSON)   *)
(* and Set-Cookie header its last step started from, how often it called   *)
(* store.unseal, and the clock and the bag (as JSON) at its call.  A step  *)
(* of the world (the clock, the client) leaves NoEvent; the call of an     *)
(* async operation, which runs up to its await, leaves Called.             *)

NoOrigin == [kind |-> "none"]

Event(op, ret, err, sealed, from, value) ==
    [ op |-> op, ret |-> ret, err |-> err, sealed |-> sealed, from |-> from,
      value |-> value, bag |-> Stringify(heap, unsealed), hdr |-> res, unseals |-> 0,
      at |-> now, began |-> Stringify(heap, unsealed) ]

\* the same for an operation whose starting point no property reads
Plain(op, ret, err) ==
    [ op |-> op, ret |-> ret, err |-> err, sealed |-> NoToken, from |-> NoOrigin,
      value |-> VUndefined, bag |-> [k \in {} |-> VUndefined],
      hdr |-> [kind |-> "undefined", values |-> <<>>], unseals |-> 0,
      at |-> Ms(0, 0), began |-> [k \in {} |-> VUndefined] ]

NoEvent == Plain("none", "void", "")

Called == Plain("call", "promise", "")

\* No call is waiting.
NoPending == <<>>

\* A call that waits at its await: the operation, whether it called
\* store.unseal, what Iron has been asked at the call and will give
\* ([err, value] of Iron.unseal, or the error of Iron.seal), the sealed
\* string given or made, with its origin, and the clock and the bag (as
\* JSON) at the call.
Call(op, called, result, sealed, from) ==
    [ op |-> op, called |-> called, result |-> result, sealed |-> sealed,
      from |-> from, at |-> now, began |-> Stringify(heap, unsealed) ]

\* what the call c leaves behind when it returns
Returned(c, ret, err, sealed, from) ==
    [ Event(c.op, ret, err, sealed, from, VUndefined) EXCEPT
        !.unseals = IF c.called THEN 1 ELSE 0, !.at = c.at, !.began = c.began ]

\* no call waits: the caller makes its next call when the last has returned
Idle == pending = NoPending

----------------------------------------------------------------------------
(* IronStore.                                                              *)

NoStore ==
    [ status |-> "none", err |-> "", password |-> PwString(""),
      sealPassword |-> Entry("", ""), unsealPassword |-> [id \in {} |-> ""],
      sealOptions |-> [ttl |-> Ms(0, 0), timestampSkewSec |-> 0] ]

\* new IronStore(password, ttl): the store, or the error thrown (kept
\* with the password that was refused)
IronStoreNew(password, ttl) ==
    LET sealPw == normalizeSealPassword(password)
        unsealPw == normalizeUnsealPassword(password)
        failed(msg) == [NoStore EXCEPT !.status = "error", !.err = msg,
                                       !.password = password]
    IN  IF sealPw.err # "" THEN failed(sealPw.err)
        ELSE IF unsealPw.err # "" THEN failed(unsealPw.err)
        ELSE [ status |-> "ready", err |-> "", password |-> password,
               sealPassword |-> sealPw.value, unsealPassword |-> unsealPw.value,
               sealOptions |-> [ttl |-> TimesThousand(ttl),
                                timestampSkewSec |-> IronDefaults.timestampSkewSec] ]

\* Variants of the catch clause that forget one of its three messages, or
\* swallow every message; the properties of unseal must tell them apart
\* from the catch clause itself.
IsIgnoredError_NoUnknownId(message) ==
    \/ message = "Expired seal"
    \/ message = "Bad hmac value"

IsIgnoredError_NoExpired(message) ==
    \/ message = "Bad hmac value"
    \/ StartsWith(message, "Cannot find password: ")

IsIgnoredError_Everything(message) == message = message

\* the catch clause of unseal: the errors that only mean "no valid seal"
IsIgnoredError(message) ==
    \/ message = "Expired seal"
    \/ message = "Bad hmac value"
    \/ StartsWith(message, "Cannot find password: ")

Ready == store.status = "ready"

\* new IronStore(password, ttl), called directly.  The model follows one
\* store, this one or the one a session keeps to itself: a session has its
\* own store, which a store constructed next to it does not replace, so
\* the step is taken when there is no session; and a call that waits
\* belongs to the store it was made on, so the step is taken when no call
\* waits.
NewStore(password, ttl) ==
    /\ session.status = "none"
    /\ pending = NoPending
    /\ store' = IronStoreNew(password, ttl)
    /\ unsealed' = EmptyBag
    /\ heap' = Collect(heap, EmptyBag, held)
    /\ last' = Plain("new", IF store'.status = "ready" THEN "void" ELSE "throw",
                     store'.err)
    /\ UNCHANGED <<now, ticks, wire, origin, session, held, req, res, pending>>

\* store.get(key): clone(this.unsealed[key])
Get(key) ==
    /\ Ready
    /\ LET present == key \in DOMAIN unsealed
           copy == IF present THEN Clone(heap, unsealed[key])
                   ELSE [heap |-> heap, value |-> VUndefined]
       IN  /\ present => Cardinality(FreeAddrs(heap)) >=
                             JsonCells(ValueJson(heap, unsealed[key]))
           /\ heap' = copy.heap
           /\ held' = IF copy.value.t = "ref" THEN held \cup {copy.value.a} ELSE held
           /\ last' = Event("get", "value", "", NoToken, NoOrigin, copy.value)
    /\ UNCHANGED <<now, ticks, wire, origin, store, session, unsealed, req, res, pending>>

\* store.set(key, value): this.unsealed[key] = clone(value)
Set(key, value) ==
    /\ Ready
    /\ Cardinality(FreeAddrs(heap)) >= JsonCells(ValueJson(heap, value))
    /\ LET copy == Clone(heap, value)
           bag == [k \in DOMAIN unsealed \cup {key} |->
                      IF k = key THEN copy.value ELSE unsealed[k]]
       IN  /\ unsealed' = bag
           /\ heap' = Collect(copy.heap, bag, held)
    /\ last' = Plain("set", "void", "")
    /\ UNCHANGED <<now, ticks, wire, origin, store, session, held, req, res, pending>>

\* store.unset(key): delete this.unsealed[key]
Unset(key) ==
    /\ Ready
    /\ LET bag == [k \in DOMAIN unsealed \ {key} |-> unsealed[k]]
       IN  /\ unsealed' = bag
           /\ heap' = Collect(heap, bag, held)
    /\ last' = Plain("unset", "void", "")
    /\ UNCHANGED <<now, ticks, wire, origin, store, session, held, req, res, pending>>

\* this.unsealed = {}
ClearBag ==
    /\ unsealed' = EmptyBag
    /\ heap' = Collect(heap, EmptyBag, held)

\* store.clear()
Clear ==
    /\ Ready
    /\ ClearBag
    /\ last' = Plain("clear", "void", "")
    /\ UNCHANGED <<now, ticks, wire, origin, store, session, held, req, res, pending>>

\* what a seal of the bag by this store, now, is known to be
SealOrigin(st, who) ==
    [ kind |-> "sealed", by |-> who, password |-> st.password,
      entry |-> st.sealPassword, bag |-> Stringify(heap, unsealed),
      at |-> now, ttl |-> st.sealOptions.ttl, part |-> 0 ]

\* Iron.seal(this.unsealed, this.sealPassword, this.sealOptions)
StoreSeal(nonce) ==
    IronSeal(Stringify(heap, unsealed), store.sealPassword, store.sealOptions, now, nonce)

\* The call of store.seal() by `op`, up to the promise of Iron.seal, which
\* has read the bag, the password, the options and the clock: the call as
\* it waits, with the sealed string or the error Iron will give.
SealCalled(op, who, nonce) ==
    LET r == StoreSeal(nonce)
    IN  Call(op, FALSE, [err |-> r.err, value |-> NoToken], r.sealed,
             IF r.err = "" THEN SealOrigin(store, who) ELSE NoOrigin)

\* store.seal() is called
Seal(nonce) ==
    /\ Ready
    /\ Len(pending) < MaxPending
    /\ pending' = Append(pending, SealCalled("seal", "store", nonce))
    /\ last' = Called
    /\ UNCHANGED <<now, ticks, wire, origin, store, session, unsealed, heap, held, req, res>>

\* the promise of store.seal() settles: the sealed string goes to the
\* caller, or Iron's error does
SealSettle(c) ==
    /\ IF c.result.err # ""
       THEN /\ last' = Returned(c, "throw", c.result.err, NoToken, NoOrigin)
            /\ UNCHANGED <<wire, origin>>
       ELSE /\ wire' = c.sealed
            /\ origin' = c.from
            /\ last' = Returned(c, "token", "", c.sealed, c.from)
    /\ UNCHANGED <<store, session, unsealed, heap, res>>

\* The call of st.unseal(sealed) by `op`, up to its await: Iron.unseal has
\* read the sealed string, the password, the options and the clock.
UnsealCalled(st, op, sealed, from) ==
    Call(op, TRUE, IronUnseal(sealed, st.unsealPassword, st.sealOptions, now),
         sealed, from)

\* store.unseal(sealed) is called, with the sealed string the client holds
Unseal ==
    /\ Ready
    /\ wire # NoToken
    /\ Len(pending) < MaxPending
    /\ pending' = Append(pending, UnsealCalled(store, "unseal", wire, origin))
    /\ last' = Called
    /\ UNCHANGED <<now, ticks, wire, origin, store, session, unsealed, heap, held, req, res>>

\* the same, with the payload assigned key by key onto the bag
UnsealSettle_Merge(c) ==
    LET h0 == Collect(heap, unsealed, held)
        r == c.result
    IN  IF r.err = ""
        THEN /\ Cardinality(FreeAddrs(h0)) >= BagCells(r.value, DOMAIN r.value)
             /\ LET parsed == Parse(h0, r.value)
                IN  /\ unsealed' = [k \in DOMAIN unsealed \cup DOMAIN parsed.bag |->
                                     IF k \in DOMAIN parsed.bag THEN parsed.bag[k]
                                     ELSE unsealed[k]]
                    /\ heap' = parsed.heap
             /\ last' = Returned(c, "true", r.err, c.sealed, c.from)
        ELSE /\ UNCHANGED <<unsealed, heap>>
             /\ last' = Returned(c, IF IsIgnoredError(r.err) THEN "false" ELSE "throw",
                                 r.err, c.sealed, c.from)

\* What the call c of unseal does once Iron.unseal has given its result:
\* this.unsealed = unsealed and true, or the catch clause.
UnsealSettle(c) ==
    LET h0 == Collect(heap, EmptyBag, held)
        r == c.result
    IN  IF r.err = ""
        THEN /\ Cardinality(FreeAddrs(h0)) >= BagCells(r.value, DOMAIN r.value)
             /\ LET parsed == Parse(h0, r.value)
                IN  /\ unsealed' = parsed.bag
                    /\ heap' = parsed.heap
             /\ last' = Returned(c, "true", r.err, c.sealed, c.from)
        ELSE /\ UNCHANGED <<unsealed, heap>>
             /\ last' = Returned(c, IF IsIgnoredError(r.err) THEN "false" ELSE "throw",
                                 r.err, c.sealed, c.from)

----------------------------------------------------------------------------
(* The world around the store: the clock, and what can happen to a sealed  *)
(* string while the client holds it.                                       *)

\* the clock advances by `step` seconds
Tick(step) ==
    /\ ticks < MaxTicks
    /\ ticks' = ticks + 1
    /\ now' = NumAdd(now, SecToMs(step))
    /\ last' = NoEvent
    /\ UNCHANGED <<wire, origin, store, session, unsealed, heap, held, req, res, pending>>

TextParts == {1, 2, 6}

\* One position of the sealed string is changed: a character of a text
\* part (i > 0, to c), a character of a symbolic part (i = 0), a character
\* turned into a star ("split") or a star turned into a character ("join").
Tamper(how, p, i, c) ==
    /\ origin.kind = "sealed"
    /\ p \in 1..8
    /\ how = "join" => p < 8
    /\ how = "char" /\ p \in TextParts =>
          i \in 1..Len(wire.parts[p].text) /\ CharAt(wire.parts[p].text, i) # c
    /\ how = "char" /\ p \notin TextParts => i = 0
    /\ how # "char" => i = 0
    /\ wire' =
          LET parts == wire.parts
              ReplaceChar(str) == SubSeq(str, 1, i - 1) \o c \o SubSeq(str, i + 1, Len(str))
          IN  IF how = "char" /\ p \in TextParts
              THEN [parts |-> [parts EXCEPT ![p] = Text(ReplaceChar(parts[p].text))]]
              ELSE IF how = "char"
              THEN [parts |-> [parts EXCEPT ![p] = [parts[p] EXCEPT !.flip = TRUE]]]
              ELSE IF how = "split"
              THEN [parts |-> SubSeq(parts, 1, p) \o <<Text("")>> \o SubSeq(parts, p + 1, 8)]
              ELSE [parts |-> SubSeq(parts, 1, p - 1) \o <<Text("joined")>>
                              \o SubSeq(parts, p + 2, 8)]
    /\ origin' = [origin EXCEPT !.kind = "tampered", !.part = p]
    /\ last' = NoEvent
    /\ UNCHANGED <<now, ticks, store, session, unsealed, heap, held, req, res, pending>>

----------------------------------------------------------------------------
(* Cookies.  A serialized cookie is kept as its name, its value and the    *)
(* text of its attributes; a cookie value is a sealed string (NoToken is   *)
(* the empty string).  An optional setting is <<>> or <<value>>.           *)

None == <<>>
Some(x) == <<x>>

\* the length of base64url text for `bytes` bytes
B64Length(bytes) == (bytes * 4 + 2) \div 3

\* the length of the parts of a sealed string, without the stars
RECURSIVE PartsLength(_)
PartsLength(parts) ==
    LET PartLength(part) ==
            IF "text" \in DOMAIN part THEN Len(part.text)
            ELSE IF "rand" \in DOMAIN part
            THEN (IF part.rand = "iv" THEN B64Length(IronDefaults.ivBits \div 8)
                  ELSE IronDefaults.saltBits \div 4)
            ELSE IF "plain" \in DOMAIN part
            THEN B64Length(16 * ((BagJsonLength(part.plain) \div 16) + 1))
            ELSE B64Length(IronDefaults.digestBits \div 8)
    IN  IF parts = <<>> THEN 0 ELSE PartLength(Head(parts)) + PartsLength(Tail(parts))

\* cookie.serialize(name, value, options), with the attributes it writes
\* for these options
Serialize(name, value, options) ==
    [name |-> name, value |-> value,
     attributes |->
        "; Max-Age=" \o NumToStr(options.maxAge)
        \o (IF options.path # "" THEN "; Path=" \o options.path ELSE "")
        \o (IF options.httpOnly THEN "; HttpOnly" ELSE "")
        \o (IF options.secure THEN "; Secure" ELSE "")
        \o (IF options.sameSite = "lax" THEN "; SameSite=Lax" ELSE "")]

\* serialized.length (a sealed string needs no escaping; its length is
\* that of its parts and of the stars between them)
SerializedLength(serialized) ==
    LET sealed == serialized.value
        SealedLength == IF sealed.parts = <<>> THEN 0
                        ELSE PartsLength(sealed.parts) + Len(sealed.parts) - 1
    IN  Len(serialized.name) + 1 + SealedLength + Len(serialized.attributes)

\* cookie.parse(header)[name]: the first cookie of that name, if any
RECURSIVE ParsedCookie(_, _)
ParsedCookie(header, name) ==
    IF header = <<>> THEN None
    ELSE IF Head(header).name = name THEN Some(Head(header).value)
    ELSE ParsedCookie(Tail(header), name)

\* a lookup that turns to the raw header when the mapping lacks the name
getRequestCookie_HeaderFallback(request, cookieName) ==
    IF request.cookies # None /\ cookieName \in DOMAIN request.cookies[1]
    THEN Some(request.cookies[1][cookieName])
    ELSE ParsedCookie(request.header, cookieName)

\* getRequestCookie(req, cookieName): <<>> for undefined
getRequestCookie(request, cookieName) ==
    IF request.cookies # None
    THEN (IF cookieName \in DOMAIN request.cookies[1]
          THEN Some(request.cookies[1][cookieName]) ELSE None)
    ELSE ParsedCookie(request.header, cookieName)

\* the empty string as the value of a header
EmptyString == [name |-> "", value |-> NoToken, attributes |-> ""]

\* a write that replaces the header
setResponseCookie_Overwrite(response, serializedCookie) ==
    [kind |-> "array", values |-> <<serializedCookie>>]

\* setResponseCookie(res, serializedCookie): the header after it.
\* [res.getHeader('set-cookie') || []].flat().map(String): an undefined
\* header and an empty string both give the empty list.
setResponseCookie(response, serializedCookie) ==
    LET existingSetCookies ==
            IF response.kind = "string" /\ response.values = <<EmptyString>> THEN <<>>
            ELSE response.values
    IN  [kind |-> "array", values |-> Append(existingSetCookies, serializedCookie)]

----------------------------------------------------------------------------
(* Session options.                                                        *)

Options(cookieName, password, ttl, maxAge) ==
    [cookieName |-> cookieName, password |-> password, ttl |-> ttl,
     cookieOptions |-> [maxAge |-> maxAge]]

Env(cookieName, password, production) ==
    [IRON_SESSION_COOKIE_NAME |-> cookieName, IRON_SESSION_PASSWORD |-> password,
     production |-> production]

\* a resolution that prefers the environment
getCookieName_EnvFirst(sessionOptions, env) ==
    IF env.IRON_SESSION_COOKIE_NAME # None /\ env.IRON_SESSION_COOKIE_NAME[1] # ""
    THEN [err |-> "", value |-> env.IRON_SESSION_COOKIE_NAME[1]]
    ELSE IF sessionOptions.cookieName # None /\ Len(sessionOptions.cookieName[1]) > 0
    THEN [err |-> "", value |-> sessionOptions.cookieName[1]]
    ELSE [err |-> "Missing IronSession option: cookieName", value |-> ""]

\* getCookieName(sessionOptions): [err, value]
getCookieName(sessionOptions, env) ==
    IF sessionOptions.cookieName # None /\ Len(sessionOptions.cookieName[1]) > 0
    THEN [err |-> "", value |-> sessionOptions.cookieName[1]]
    ELSE IF env.IRON_SESSION_COOKIE_NAME # None /\ env.IRON_SESSION_COOKIE_NAME[1] # ""
    THEN [err |-> "", value |-> env.IRON_SESSION_COOKIE_NAME[1]]
    ELSE [err |-> "Missing IronSession option: cookieName", value |-> ""]

\* getPassword(sessionOptions): [err, value]
getPassword(sessionOptions, env) ==
    IF sessionOptions.password # None /\ PwLength(sessionOptions.password[1]) > 0
    THEN [err |-> "", value |-> sessionOptions.password[1]]
    ELSE IF env.IRON_SESSION_PASSWORD # None /\ env.IRON_SESSION_PASSWORD[1] # ""
    THEN [err |-> "", value |-> PwString(env.IRON_SESSION_PASSWORD[1])]
    ELSE [err |-> "Missing IronSession option: password", value |-> PwString("")]

\* sessionOptions?.ttl ?? DEFAULT_TTL
getTtl(sessionOptions) ==
    IF sessionOptions.ttl # None THEN sessionOptions.ttl[1] ELSE Number(DEFAULT_TTL)

\* getCookieMaxAge(sessionOptions)
getCookieMaxAge(sessionOptions) ==
    IF sessionOptions.cookieOptions.maxAge # None
       /\ ~NumIsZero(sessionOptions.cookieOptions.maxAge[1])
    THEN Min(sessionOptions.cookieOptions.maxAge[1], Number(MAX_TTL))
    ELSE Min(NumSub(getTtl(sessionOptions), Number(TIMESTAMP_SKEW_SEC)), Number(MAX_TTL))

\* getCookieSerializeOptions(sessionOptions)
getCookieSerializeOptions(sessionOptions, env) ==
    LET defaults == DEFAULT_COOKIE_OPTIONS(env.production)
    IN  [ httpOnly |-> defaults.httpOnly, path |-> defaults.path,
          sameSite |-> defaults.sameSite, secure |-> defaults.secure,
          maxAge |-> getCookieMaxAge(sessionOptions) ]

NoSession ==
    [status |-> "none", err |-> "", cookieName |-> "",
     cookieOptions |-> [httpOnly |-> FALSE, path |-> "", sameSite |-> "",
                        secure |-> FALSE, maxAge |-> Number(0)],
     given |-> None]

\* new IronSession(req, res, sessionOptions): [session, store]; `given`
\* remembers the options and the environment it was constructed from
\* (ghost)
IronSessionNew(sessionOptions, env) ==
    LET cookieName == getCookieName(sessionOptions, env)
        password == getPassword(sessionOptions, env)
        given == Some([options |-> sessionOptions, env |-> env])
        failed(msg) == [session |-> [NoSession EXCEPT !.status = "error", !.err = msg,
                                                      !.given = given],
                        store |-> NoStore]
        st == IronStoreNew(password.value, getTtl(sessionOptions))
    IN  IF cookieName.err # "" THEN failed(cookieName.err)
        ELSE IF password.err # "" THEN failed(password.err)
        ELSE IF st.status # "ready" THEN failed(st.err)
        ELSE [session |-> [status |-> "ready", err |-> "",
                           cookieName |-> cookieName.value,
                           cookieOptions |-> getCookieSerializeOptions(sessionOptions, env),
                           given |-> given],
              store |-> st]

----------------------------------------------------------------------------
(* IronSession.                                                            *)

Bound == session.status = "ready" /\ store.status = "ready"

\* A request and its response reach the handler, when no call of the
\* request before waits; the session of the request before is let go.
Arrive(request, response) ==
    /\ pending = NoPending
    /\ req' = request
    /\ res' = response
    /\ session' = NoSession
    /\ store' = NoStore
    /\ unsealed' = EmptyBag
    /\ heap' = Collect(heap, EmptyBag, held)
    /\ last' = NoEvent
    /\ UNCHANGED <<now, ticks, wire, origin, held, pending>>

\* new IronSession(req, res, sessionOptions), the first session of the
\* request; from here on the model follows the store of the session
NewSession(sessionOptions, env) ==
    /\ session.status = "none"
    /\ pending = NoPending
    /\ LET made == IronSessionNew(sessionOptions, env)
       IN  /\ session' = made.session
           /\ store' = made.store
           /\ last' = Plain("new", IF made.session.status = "ready" THEN "void" ELSE "throw",
                            made.session.err)
    /\ unsealed' = EmptyBag
    /\ heap' = Collect(heap, EmptyBag, held)
    /\ UNCHANGED <<now, ticks, wire, origin, held, req, res, pending>>

\* this.readCookie()
readCookie(sess) == getRequestCookie(req, sess.cookieName)

\* a test for a cookie that is there, empty or not
Truthy_Present(cookie) == cookie # None

\* a JavaScript string that is not empty
Truthy(cookie) == cookie # None /\ cookie[1] # NoToken

\* The call of restore() of the session `sess` over the store `st` by
\* `op`: up to the await of store.unseal, or to its end when there is no
\* cookie to unseal.
RestoreCalled(sess, st, op) ==
    LET sealed == readCookie(sess)
    IN  IF Truthy(sealed)
        THEN UnsealCalled(st, op, sealed[1], req.from)
        ELSE Call(op, FALSE, [err |-> "", value |-> NoToken], NoToken, NoOrigin)

\* session.restore() is called
Restore ==
    /\ Bound
    /\ Len(pending) < MaxPending
    /\ pending' = Append(pending, RestoreCalled(session, store, "restore"))
    /\ last' = Called
    /\ UNCHANGED <<now, ticks, wire, origin, store, session, unsealed, heap, held, req, res>>

\* the promise of restore() settles: as store.unseal does, or false
RestoreSettle(c) ==
    IF c.called
    THEN UnsealSettle(c)
    ELSE /\ last' = Returned(c, "false", "", NoToken, NoOrigin)
         /\ UNCHANGED <<unsealed, heap>>

\* getIronSession(req, res, sessionOptions) is called: the session is
\* constructed and its restore() called; nobody has the session before
\* the promise settles.  An error of the constructor rejects the promise.
getIronSession(sessionOptions, env) ==
    /\ session.status = "none"
    /\ pending = NoPending
    /\ LET made == IronSessionNew(sessionOptions, env)
       IN  /\ session' = [made.session EXCEPT !.status = "pending"]
           /\ store' = IF made.store.status = "ready"
                       THEN [made.store EXCEPT !.status = "pending"]
                       ELSE made.store
           /\ unsealed' = EmptyBag
           /\ heap' = Collect(heap, EmptyBag, held)
           /\ pending' =
                 << [ ( IF made.session.status = "ready"
                        THEN RestoreCalled(made.session, made.store, "getIronSession")
                        ELSE Call("getIronSession", FALSE,
                                  [err |-> made.session.err, value |-> NoToken],
                                  NoToken, NoOrigin) )
                      EXCEPT !.began = Stringify(heap', unsealed') ] >>
    /\ last' = Called
    /\ UNCHANGED <<now, ticks, wire, origin, held, req, res>>

\* the promise of getIronSession settles: the caller gets the session,
\* restored, or the error of the constructor or of restore()
getIronSessionSettle(c) ==
    IF session.err # ""
    THEN /\ session' = [session EXCEPT !.status = "error"]
         /\ last' = Returned(c, "throw", session.err, NoToken, NoOrigin)
         /\ UNCHANGED <<store, unsealed, heap>>
    ELSE /\ RestoreSettle(c)
         /\ LET status == IF last'.ret = "throw" THEN "dropped" ELSE "ready"
            IN  /\ session' = [session EXCEPT !.status = status]
                /\ store' = [store EXCEPT !.status = status]

\* writeCookie with a ceiling one lower
writeCookie_OffByOne(value) ==
    LET options == IF value # NoToken THEN session.cookieOptions
                   ELSE [session.cookieOptions EXCEPT !.maxAge = Number(0)]
        serialized == Serialize(session.cookieName, value, options)
    IN  IF SerializedLength(serialized) >= MAX_COOKIE_SIZE
        THEN [err |-> "IronSession cookie length is too big: "
                      \o IntToStr(SerializedLength(serialized)),
              header |-> res]
        ELSE [err |-> "", header |-> setResponseCookie(res, serialized)]

\* writeCookie that writes the header before it looks at the length
writeCookie_WriteFirst(value) ==
    LET options == IF value # NoToken THEN session.cookieOptions
                   ELSE [session.cookieOptions EXCEPT !.maxAge = Number(0)]
        serialized == Serialize(session.cookieName, value, options)
    IN  IF SerializedLength(serialized) > MAX_COOKIE_SIZE
        THEN [err |-> "IronSession cookie length is too big: "
                      \o IntToStr(SerializedLength(serialized)),
              header |-> setResponseCookie(res, serialized)]
        ELSE [err |-> "", header |-> setResponseCookie(res, serialized)]

\* writeCookie that keeps the configured max-age for an empty value
writeCookie_KeepMaxAge(value) ==
    LET serialized == Serialize(session.cookieName, value, session.cookieOptions)
    IN  IF SerializedLength(serialized) > MAX_COOKIE_SIZE
        THEN [err |-> "IronSession cookie length is too big: "
                      \o IntToStr(SerializedLength(serialized)),
              header |-> res]
        ELSE [err |-> "", header |-> setResponseCookie(res, serialized)]

\* The body of session.writeCookie(value): [err, header].
writeCookie(value) ==
    LET options == IF value # NoToken THEN session.cookieOptions
                   ELSE [session.cookieOptions EXCEPT !.maxAge = Number(0)]
        serialized == Serialize(session.cookieName, value, options)
    IN  IF SerializedLength(serialized) > MAX_COOKIE_SIZE
        THEN [err |-> "IronSession cookie length is too big: "
                      \o IntToStr(SerializedLength(serialized)),
              header |-> res]
        ELSE [err |-> "", header |-> setResponseCookie(res, serialized)]

\* session.save() is called: it calls store.seal() and waits
Save(nonce) ==
    /\ Bound
    /\ Len(pending) < MaxPending
    /\ pending' = Append(pending, SealCalled("save", "session", nonce))
    /\ last' = Called
    /\ UNCHANGED <<now, ticks, wire, origin, store, session, unsealed, heap, held, req, res>>

\* the promise of store.seal() has settled and save() goes on:
\* this.writeCookie(sealed), or the error of the seal
SaveSettle(c) ==
    /\ Len(res.values) < MaxSetCookies
    /\ LET w == writeCookie(c.sealed)
       IN  IF c.result.err # ""
           THEN /\ last' = Returned(c, "throw", c.result.err, NoToken, NoOrigin)
                /\ UNCHANGED <<wire, origin, res>>
           ELSE IF w.err # ""
           THEN /\ last' = Returned(c, "throw", w.err, c.sealed, c.from)
                /\ res' = w.header
                /\ UNCHANGED <<wire, origin>>
           ELSE /\ res' = w.header
                /\ wire' = c.sealed
                /\ origin' = c.from
                /\ last' = Returned(c, "void", "", c.sealed, c.from)
    /\ UNCHANGED <<store, session, unsealed, heap>>

\* session.destroy(): this.store.clear(); this.writeCookie('')
Destroy ==
    /\ Bound
    /\ Len(res.values) < MaxSetCookies
    /\ ClearBag
    /\ LET w == writeCookie(NoToken)
       IN  /\ res' = w.header
           /\ last' = Event("destroy", IF w.err # "" THEN "throw" ELSE "void", w.err,
                            NoToken, NoOrigin, VUndefined)
    /\ UNCHANGED <<now, ticks, wire, origin, store, session, held, req, pending>>

\* One of the calls that wait gets what it waited for and runs to its
\* end; the promises settle in any order.
Settle ==
    \E i \in 1..Len(pending) :
        /\ LET c == pending[i]
           IN  CASE c.op = "seal" -> SealSettle(c)
                 [] c.op = "unseal" ->
                       UnsealSettle(c) /\ UNCHANGED <<wire, origin, store, session, res>>
                 [] c.op = "restore" ->
                       RestoreSettle(c) /\ UNCHANGED <<wire, origin, store, session, res>>
                 [] c.op = "save" -> SaveSettle(c)
                 [] c.op = "getIronSession" ->
                       getIronSessionSettle(c) /\ UNCHANGED <<wire, origin, res>>
        /\ pending' = SubSeq(pending, 1, i - 1) \o SubSeq(pending, i + 1, Len(pending))
        /\ UNCHANGED <<now, ticks, held, req>>

----------------------------------------------------------------------------
(* Inputs.                                                                 *)

SecretA == "correct-horse-battery-staple-0001"
SecretB == "another-secret-of-thirty-two-chars"

\* Password material a store may be given: one secret; the same secret as
\* a list of one entry; rotation lists
\* (newest first); a list naming one id twice; a list with an empty id;
\* a secret shorter than Iron accepts; nothing at all.
Passwords ==
    { PwString(SecretA),
      PwList(<<Entry("1", SecretA)>>),
      PwList(<<Entry("2", SecretB), Entry("1", SecretA)>>),
      PwList(<<Entry("1", SecretA), Entry("1", SecretB)>>),
      PwList(<<Entry("", SecretA)>>),
      PwString("short"),
      PwString(""),
      PwList(<<>>) }

Keys == {"user"}

Primitives == {VNum(1)}

StartOfTime == Ms(100, 0)

\* the random bits one seal draws (salts and iv)
Nonces == {1}

NoRequest == [cookies |-> <<>>, header |-> <<>>, from |-> NoOrigin]
NoResponse == [kind |-> "undefined", values |-> <<>>]

----------------------------------------------------------------------------
(* The store used on its own, under every kind of password material. Its   *)
(* caller waits for seal() and unseal() before it goes on; while it waits  *)
(* the clock may advance.  A new store is taken up between calls.          *)

InitStore ==
    /\ now = StartOfTime
    /\ ticks = 0
    /\ wire = NoToken
    /\ origin = NoOrigin
    /\ store \in {IronStoreNew(pw, ttl) : pw \in Passwords, ttl \in {Number(0), Number(1)}}
    /\ session = NoSession
    /\ unsealed = EmptyBag
    /\ heap = EmptyHeap
    /\ held = {}
    /\ req = NoRequest
    /\ res = NoResponse
    /\ last = NoEvent
    /\ pending = NoPending

NextStore ==
    \/ \E pw \in Passwords, ttl \in {Number(0), Number(1)} : NewStore(pw, ttl)
    \/ \E k \in Keys, v \in Primitives : Idle /\ Set(k, v)
    \/ \E k \in Keys : Idle /\ Unset(k)
    \/ Idle /\ Clear
    \/ \E nonce \in Nonces : Idle /\ Seal(nonce)
    \/ Idle /\ Unseal
    \/ Settle
    \/ \E step \in {1, IronDefaults.timestampSkewSec} : Tick(step)

SpecStore == InitStore /\ [][NextStore]_vars

----------------------------------------------------------------------------
(* One request after another, each served through an IronSession. The      *)
(* handler waits for restore() and save() before it reads or writes the    *)
(* bag again; destroy() may come while a call waits, and so may the next   *)
(* request.                                                                *)

\* the name under which the client sends the cookie back
ClientCookieName == "session_id"

\* a number, and a string whose length makes the cookie of a default
\* session named session_id exactly MAX_COOKIE_SIZE long
SessionValues == {VNum(1), VStr(2837)}

NoEnv == Env(None, None, FALSE)

\* the usual options: a cookie name and one secret, the rest by default
DefaultOptions == Options(Some(ClientCookieName), Some(PwString(SecretA)), None, None)

\* the same with a time-to-live of one second
ShortLivedOptions ==
    Options(Some(ClientCookieName), Some(PwString(SecretA)), Some(Number(1)), None)

\* The options handlers construct their sessions with: the usual ones,
\* and the same with another cookie name, another secret, a short
\* time-to-live, or a max-age of its own.
SessionOptions ==
    { Options(Some("session_id"), Some(PwString(SecretA)), None, None),
      Options(Some("session_id2"), Some(PwString(SecretA)), None, None),
      Options(Some("session_id"), Some(PwString(SecretB)), None, None),
      Options(Some("session_id"), Some(PwString(SecretA)), Some(Number(1)), None),
      Options(Some("session_id"), Some(PwString(SecretA)), None, Some(Number(5))) }

Garbage == [parts |-> <<Text("garbage")>>]

NamedCookie(name, value) == [name |-> name, value |-> value]

\* The requests a client holding `sealed` may send: no cookie; the cookie
\* pre-parsed or in the raw header; the cookie with an empty value; a
\* cookie that was never sealed.
Requests(sealed, from) ==
    { NoRequest,
      [cookies |-> Some([n \in {ClientCookieName} |-> sealed]), header |-> <<>>,
       from |-> from],
      [cookies |-> None, header |-> <<NamedCookie(ClientCookieName, sealed)>>,
       from |-> from],
      [cookies |-> Some([n \in {ClientCookieName} |-> NoToken]), header |-> <<>>,
       from |-> NoOrigin],
      [cookies |-> None, header |-> <<NamedCookie(ClientCookieName, Garbage)>>,
       from |-> NoOrigin] }

\* a Set-Cookie value some other middleware wrote
ForeignCookie ==
    [name |-> "theme", value |-> [parts |-> <<Text("dark")>>], attributes |-> "; Path=/"]

Responses == {NoResponse, [kind |-> "string", values |-> <<ForeignCookie>>]}

Init ==
    /\ now = StartOfTime
    /\ ticks = 0
    /\ wire = NoToken
    /\ origin = NoOrigin
    /\ store = NoStore
    /\ session = NoSession
    /\ unsealed = EmptyBag
    /\ heap = EmptyHeap
    /\ held = {}
    /\ req \in Requests(NoToken, NoOrigin)
    /\ res \in Responses
    /\ last = NoEvent
    /\ pending = NoPending

Next ==
    \/ \E request \in Requests(wire, origin), response \in Responses :
          Arrive(request, response)
    \/ \E options \in SessionOptions : NewSession(options, NoEnv)
    \/ \E options \in SessionOptions : getIronSession(options, NoEnv)
    \/ Idle /\ Restore
    \/ \E k \in Keys, v \in SessionValues : Idle /\ Bound /\ Set(k, v)
    \/ \E k \in Keys : Idle /\ Bound /\ Unset(k)
    \/ \E k \in Keys : Idle /\ Bound /\ Get(k)
    \/ Idle /\ Bound /\ Clear
    \/ \E nonce \in Nonces : Idle /\ Save(nonce)
    \/ Destroy
    \/ Settle

Spec == Init /\ [][Next]_vars

----------------------------------------------------------------------------
(* The store and the code that calls it, which makes objects, hands them   *)
(* to set(), keeps what get() returns, and changes what it holds, also     *)
(* while unseal() waits.                                                   *)

\* the caller makes an object {n} or {n, child: {n: m}} and keeps it
CallerNew(n, nested, m) ==
    /\ Cardinality(FreeAddrs(heap)) >= (IF nested THEN 2 ELSE 1)
    /\ LET made == Build(heap, JObj(n, IF nested THEN JObj(m, JNone) ELSE JNone))
       IN  /\ heap' = made.heap
           /\ held' = held \cup {made.value.a}
    /\ last' = NoEvent
    /\ UNCHANGED <<now, ticks, wire, origin, store, session, unsealed, req, res, pending>>

\* the caller assigns to the field n of an object it can reach
CallerMutate(a, n) ==
    /\ a \in Reach(heap, held)
    /\ heap[a].n # n
    /\ heap' = [heap EXCEPT ![a].n = n]
    /\ last' = Event("mutate", "void", "", NoToken, NoOrigin, VRef(a))
    /\ UNCHANGED <<now, ticks, wire, origin, store, session, unsealed, held, req, res, pending>>

\* the caller lets go of an object
CallerDrop(a) ==
    /\ a \in held
    /\ held' = held \ {a}
    /\ heap' = Collect(heap, unsealed, held')
    /\ last' = NoEvent
    /\ UNCHANGED <<now, ticks, wire, origin, store, session, unsealed, req, res, pending>>

\* the bag an earlier request sealed: one object with a nested object
EarlierBag == [k \in Keys |-> JObj(0, JObj(0, JNone))]

\* The client comes with the seal of EarlierBag, made by a store like this
\* one.
InitBag ==
    /\ now = StartOfTime
    /\ ticks = 0
    /\ store = IronStoreNew(PwString(SecretA), Number(0))
    /\ wire = IronSeal(EarlierBag, store.sealPassword, store.sealOptions, now, 1).sealed
    /\ origin = [ kind |-> "sealed", by |-> "store", password |-> store.password,
                  entry |-> store.sealPassword, bag |-> EarlierBag,
                  at |-> now, ttl |-> store.sealOptions.ttl, part |-> 0 ]
    /\ session = NoSession
    /\ unsealed = EmptyBag
    /\ heap = EmptyHeap
    /\ held = {}
    /\ req = NoRequest
    /\ res = NoResponse
    /\ last = NoEvent
    /\ pending = NoPending

NextBag ==
    \/ \E n \in 0..1, nested \in BOOLEAN, m \in 0..1 : Idle /\ CallerNew(n, nested, m)
    \/ \E a \in Addr, n \in 0..1 : CallerMutate(a, n)
    \/ \E a \in Addr : Idle /\ CallerDrop(a)
    \/ \E k \in Keys, v \in {VNum(1)} \cup {VRef(a) : a \in held} : Idle /\ Set(k, v)
    \/ \E k \in Keys : Idle /\ Get(k)
    \/ \E k \in Keys : Idle /\ Unset(k)
    \/ Idle /\ Clear
    \/ Idle /\ Unseal
    \/ Settle

SpecBag == InitBag /\ [][NextBag]_vars

----------------------------------------------------------------------------
(* Sealed strings that come back changed in one position, given to a store *)
(* directly and to sessions through the request.  One call waits at a      *)
(* time, and the bag may be written while it does.  Stores are constructed *)
(* and used on their own until the request arrives, sessions after it.     *)

TamperPasswords ==
    { PwString(SecretA),
      PwList(<<Entry("2", SecretB), Entry("1", SecretA)>>),
      PwString("short") }

TamperOptions ==
    { Options(Some(ClientCookieName), Some(pw), Some(Number(1)), None) : pw \in TamperPasswords }

\* The request of a client that sends back what it holds; in this
\* specification the client stops changing the string once it has sent it.
Returning ==
    [cookies |-> None, header |-> <<NamedCookie(ClientCookieName, wire)>>,
     from |-> origin]

InitTamper ==
    /\ now = StartOfTime
    /\ ticks = 0
    /\ wire = NoToken
    /\ origin = NoOrigin
    /\ store = NoStore
    /\ session = NoSession
    /\ unsealed = EmptyBag
    /\ heap = EmptyHeap
    /\ held = {}
    /\ req = NoRequest
    /\ res = NoResponse
    /\ last = NoEvent
    /\ pending = NoPending

NextTamper ==
    \/ \E pw \in TamperPasswords : NewStore(pw, Number(1))
    \/ req = NoRequest /\ Arrive(Returning, NoResponse)
    \/ \E options \in TamperOptions : getIronSession(options, NoEnv)
    \/ \E options \in TamperOptions : NewSession(options, NoEnv)
    \/ Idle /\ Restore
    \/ \E k \in Keys, v \in Primitives : Set(k, v)
    \/ Clear
    \/ req = NoRequest /\ \E nonce \in Nonces : Idle /\ Seal(nonce)
    \/ /\ req = NoRequest
       /\ Idle
       /\ \E how \in {"char", "split", "join"}, p \in 1..8, i \in 0..6, c \in {"0", "1", "x"} :
             Tamper(how, p, i, c)
    \/ Idle /\ Unseal
    \/ Settle

SpecTamper == InitTamper /\ [][NextTamper]_vars

----------------------------------------------------------------------------
(* One session configuration in front of every shape of request and of     *)
(* Set-Cookie header.  The handler waits for nothing: restore(), save(),   *)
(* set() and destroy() come in any order while calls wait.                 *)

\* The requests of a client holding `sealed`, with and without cookies
\* parsed by the framework; in the last but one the parsed cookies lack
\* the session cookie that the raw header carries.
HttpRequests(sealed, from) ==
    { NoRequest,
      [cookies |-> Some([n \in {ClientCookieName} |-> sealed]), header |-> <<>>,
       from |-> from],
      [cookies |-> None, header |-> <<NamedCookie(ClientCookieName, sealed)>>,
       from |-> from],
      [cookies |-> Some([n \in {"theme"} |-> Garbage]),
       header |-> <<NamedCookie(ClientCookieName, sealed)>>, from |-> from],
      [cookies |-> Some([n \in {} |-> NoToken]), header |-> <<>>, from |-> NoOrigin] }

\* The Set-Cookie header before the session writes: none, one string, a
\* list, the empty string.
HttpResponses ==
    { NoResponse,
      [kind |-> "string", values |-> <<ForeignCookie>>],
      [kind |-> "array", values |-> <<ForeignCookie>>],
      [kind |-> "string", values |-> <<EmptyString>>] }

InitHttp ==
    /\ now = StartOfTime
    /\ ticks = 0
    /\ wire = NoToken
    /\ origin = NoOrigin
    /\ store = NoStore
    /\ session = NoSession
    /\ unsealed = EmptyBag
    /\ heap = EmptyHeap
    /\ held = {}
    /\ req \in HttpRequests(NoToken, NoOrigin)
    /\ res \in HttpResponses
    /\ last = NoEvent
    /\ pending = NoPending

NextHttp ==
    \/ \E request \in HttpRequests(wire, origin), response \in HttpResponses :
          Arrive(request, response)
    \/ NewSession(DefaultOptions, NoEnv)
    \/ Restore
    \/ \E k \in Keys : Bound /\ Set(k, VNum(1))
    \/ \E nonce \in Nonces : Save(nonce)
    \/ Destroy
    \/ Settle

SpecHttp == InitHttp /\ [][NextHttp]_vars

----------------------------------------------------------------------------
(* Sessions and stores constructed from every kind of configuration:       *)
(* options and environment variables present, empty or missing, and time-  *)
(* to-live and max-age values small, zero and beyond MAX_TTL.  Calls of    *)
(* seal() and save() may overlap.                                          *)

\* 2^31 seconds
BeyondMaxTtl == NumAdd(Number(MAX_TTL), Number(1))

\* Configurations <<options, environment>>: those that differ in where
\* cookie name and password come from, and those that differ in
\* time-to-live and max-age.
Configs ==
    { <<Options(name, password, None, None), env>> :
        name \in {None, Some(""), Some(ClientCookieName)},
        password \in {None, Some(PwString("")), Some(PwList(<<>>)),
                      Some(PwString(SecretA)), Some(PwList(<<Entry("1", "")>>))},
        env \in { NoEnv, Env(Some(""), Some(""), FALSE),
                  Env(Some("env_session"), None, FALSE),
                  Env(None, Some(SecretB), FALSE),
                  Env(Some("env_session"), Some(SecretB), FALSE) } }
    \cup
    { <<Options(Some(ClientCookieName), Some(PwString(SecretA)), ttl, maxAge), NoEnv>> :
        ttl \in {None, Some(Number(100)), Some(BeyondMaxTtl)},
        maxAge \in {None, Some(Number(0)), Some(Number(5000)), Some(BeyondMaxTtl)} }

InitConfig ==
    /\ now = StartOfTime
    /\ ticks = 0
    /\ wire = NoToken
    /\ origin = NoOrigin
    /\ store = NoStore
    /\ session = NoSession
    /\ unsealed = EmptyBag
    /\ heap = EmptyHeap
    /\ held = {}
    /\ req = NoRequest
    /\ res = NoResponse
    /\ last = NoEvent
    /\ pending = NoPending

NextConfig ==
    \/ Arrive(Returning, NoResponse)
    \/ \E pw \in {PwString(""), PwList(<<>>), PwString(SecretA),
                  PwList(<<Entry("1", "")>>)}, ttl \in {Number(1), BeyondMaxTtl} :
          NewStore(pw, ttl)
    \/ \E c \in Configs : NewSession(c[1], c[2])
    \/ \E c \in Configs : getIronSession(c[1], c[2])
    \/ \E nonce \in Nonces : Seal(nonce)
    \/ \E nonce \in Nonces : Save(nonce)
    \/ Settle

SpecConfig == InitConfig /\ [][NextConfig]_vars

----------------------------------------------------------------------------
(* A session whose caller does not wait for getIronSession(), unseal(),    *)
(* restore() or save(): the clock advances, the bag is written and other   *)
(* calls are made while calls are pending.                                 *)

InitAsync ==
    /\ now = StartOfTime
    /\ ticks = 0
    /\ wire = NoToken
    /\ origin = NoOrigin
    /\ store = NoStore
    /\ session = NoSession
    /\ unsealed = EmptyBag
    /\ heap = EmptyHeap
    /\ held = {}
    /\ req = NoRequest
    /\ res = NoResponse
    /\ last = NoEvent
    /\ pending = NoPending

NextAsync ==
    \/ req = NoRequest /\ Arrive(Returning, NoResponse)
    \/ NewSession(ShortLivedOptions, NoEnv)
    \/ getIronSession(ShortLivedOptions, NoEnv)
    \/ \E k \in Keys, v \in Primitives : Bound /\ Set(k, v)
    \/ \E k \in Keys : Bound /\ Unset(k)
    \/ Bound /\ Clear
    \/ \E nonce \in Nonces : Save(nonce)
    \/ Unseal
    \/ Restore
    \/ Settle
    \/ Tick(IronDefaults.timestampSkewSec + 1)

SpecAsync == InitAsync /\ [][NextAsync]_vars

----------------------------------------------------------------------------
(* One store whose caller does not wait for seal() or unseal(): the clock  *)
(* advances, the bag is written and other calls are made while a call is   *)
(* pending.                                                                *)

InitOverlap ==
    /\ now = StartOfTime
    /\ ticks = 0
    /\ wire = NoToken
    /\ origin = NoOrigin
    /\ store \in {IronStoreNew(PwString(SecretA), ttl) : ttl \in {Number(0), Number(1)}}
    /\ session = NoSession
    /\ unsealed = EmptyBag
    /\ heap = EmptyHeap
    /\ held = {}
    /\ req = NoRequest
    /\ res = NoResponse
    /\ last = NoEvent
    /\ pending = NoPending

NextOverlap ==
    \/ \E k \in Keys, v \in Primitives : Set(k, v)
    \/ Clear
    \/ \E nonce \in Nonces : Seal(nonce)
    \/ Unseal
    \/ Settle
    \/ \E step \in {1, IronDefaults.timestampSkewSec} : Tick(step)

SpecOverlap == InitOverlap /\ [][NextOverlap]_vars

----------------------------------------------------------------------------
(* Every operation of the handle and of its store, on sessions whose       *)
(* cookie fits and does not fit, in front of cookies sealed with the same  *)
(* and with another secret.  The handler waits for seal(), restore() and   *)
(* save() before it reads or writes the bag again; destroy() may come      *)
(* while a call waits.                                                     *)

FrameOptions ==
    { Options(Some(name), Some(PwString(secret)), None, None) :
        name \in {ClientCookieName, "session_id2"}, secret \in {SecretA, SecretB} }

InitFrame ==
    /\ now = StartOfTime
    /\ ticks = 0
    /\ wire = NoToken
    /\ origin = NoOrigin
    /\ store = NoStore
    /\ session = NoSession
    /\ unsealed = EmptyBag
    /\ heap = EmptyHeap
    /\ held = {}
    /\ req = NoRequest
    /\ res \in Responses
    /\ last = NoEvent
    /\ pending = NoPending

NextFrame ==
    \/ \E request \in {NoRequest, Returning}, response \in Responses :
          Arrive(request, response)
    \/ \E options \in FrameOptions : NewSession(options, NoEnv)
    \/ Idle /\ Restore
    \/ \E k \in Keys, v \in SessionValues : Idle /\ Bound /\ Set(k, v)
    \/ \E k \in Keys : Idle /\ Bound /\ Unset(k)
    \/ \E k \in Keys : Idle /\ Bound /\ Get(k)
    \/ Idle /\ Bound /\ Clear
    \/ \E nonce \in Nonces : Idle /\ Bound /\ Seal(nonce)
    \/ \E nonce \in Nonces : Idle /\ Save(nonce)
    \/ Destroy
    \/ Settle

SpecFrame == InitFrame /\ [][NextFrame]_vars

----------------------------------------------------------------------------
(* Properties.                                                             *)

\* at the call of the operation, the seal was younger than its
\* time-to-live (a ttl of 0 never runs out)
Unexpired(from) ==
    \/ NumIsZero(from.ttl)
    \/ ~NumLeq(NumAdd(from.at, from.ttl), last.at)

\* the bag as the caller can observe it
Bag == Stringify(heap, unsealed)

\* unseal() has just returned from a call that was given an untouched
\* seal, unexpired at the call, made by a store with the password material
\* of this store
OwnSealUnsealed ==
    /\ last.op = "unseal"
    /\ last.from.kind = "sealed"
    /\ last.from.password = store.password
    /\ Unexpired(last.from)

\* C1: a seal of bag B, given before it expires to unseal() of a store
\* with the same password material, makes unseal return true and leaves
\* B as the bag.
C1_RoundTrip ==
    OwnSealUnsealed => last.ret = "true" /\ Bag = last.from.bag

\* a store whose list names the id "1" twice refuses the seal it made
C1_DuplicateIdRefused ==
    /\ OwnSealUnsealed
    /\ store.password = PwList(<<Entry("1", SecretA), Entry("1", SecretB)>>)
    /\ last.ret = "false"
    /\ last.err = "Bad hmac value"

\* the three failures the catch clause of unseal names: the seal is
\* expired, its mac does not verify, its key id is not configured
Recoverable(e) ==
    \/ e.err = "Expired seal"
    \/ e.err = "Bad hmac value"
    \/ /\ Len(e.sealed.parts) = 8
       /\ e.err = "Cannot find password: " \o e.sealed.parts[2].text

\* C2: when unseal fails because the seal is expired, its mac does not
\* verify or its key id is not among the unseal passwords, unseal returns
\* false, throws nothing, and the bag is what it was before the call: the
\* call writes nothing, so that the bag after its return is the bag before
\* its return.
C2_RecoverableFailure ==
    last.op = "unseal" /\ Recoverable(last) =>
        last.ret = "false" /\ Bag = last.bag

\* a seal under id "2" given to a store that knows only id "1", whose
\* bag is not empty
C2_UnknownKeyId ==
    /\ last.op = "unseal"
    /\ last.sealed.parts[2].text = "2"
    /\ DOMAIN store.unsealPassword = {"1"}
    /\ last.err = "Cannot find password: 2"
    /\ last.ret = "false"
    /\ DOMAIN unsealed # {}

\* C5: with a password list L, seal() uses the first entry of L, and an
\* unexpired seal made under any entry of L is accepted by unseal() of a
\* store configured with L: it returns true and loads the seal's bag.
C5_KeyRotation ==
    /\ last.op = "seal" /\ last.ret = "token" /\ store.password.kind = "list" =>
          /\ last.sealed.parts[2].text = store.password.list[1].id
          /\ last.sealed.parts[8].key = store.password.list[1].secret
    /\ ( /\ last.op = "unseal"
         /\ last.from.kind = "sealed"
         /\ Unexpired(last.from)
         /\ store.password.kind = "list"
         /\ \E i \in 1..Len(store.password.list) :
               store.password.list[i] = last.from.entry )
       => last.ret = "true" /\ Bag = last.from.bag

\* the list (2, B), (1, A) accepts a seal made under its second entry
C5_OlderKeyAccepted ==
    /\ last.op = "unseal"
    /\ store.password = PwList(<<Entry("2", SecretB), Entry("1", SecretA)>>)
    /\ last.from.entry = Entry("1", SecretA)
    /\ last.ret = "true"
    /\ DOMAIN unsealed # {}

\* the end of the time-to-live and the end of the grace Iron adds to it
Expiry(from) == NumAdd(from.at, from.ttl)
ExpiryWithSkew(from) == NumAdd(Expiry(from), SecToMs(60))

\* C6 as stated: a seal with a time-to-live of t seconds, unsealed at any
\* clock time later than its seal time plus t, is rejected: unseal
\* returns false and the bag is unchanged.  (The clock time is that of the
\* call of unseal, where Iron reads the clock.)
C6_ExpiryAsStated ==
    ( /\ last.op = "unseal"
      /\ last.from.kind = "sealed"
      /\ ~NumIsZero(last.from.ttl)
      /\ ~NumLeq(last.at, Expiry(last.from)) )
    => last.ret = "false" /\ Bag = last.bag

\* C6: a seal with a non-zero time-to-live of t seconds is rejected as
\* expired, unseal returning false with the bag unchanged, exactly when
\* unseal is called at seal time plus t plus 60 seconds or later, however
\* late it returns; a seal with a time-to-live of 0 is never rejected as
\* expired.
C6_ExpiryWithSkew ==
    last.op = "unseal" /\ last.from.kind = "sealed" =>
        /\ last.err = "Expired seal" <=>
              /\ ~NumIsZero(last.from.ttl)
              /\ NumLeq(ExpiryWithSkew(last.from), last.at)
        /\ last.err = "Expired seal" => last.ret = "false" /\ Bag = last.bag

\* a seal with a time-to-live of 1 second, given 61 seconds later to
\* unseal of a store whose bag is not empty, and refused
C6_RejectedAfterSkew ==
    /\ last.op = "unseal"
    /\ last.from.kind = "sealed"
    /\ last.from.ttl = SecToMs(1)
    /\ last.at = NumAdd(last.from.at, SecToMs(61))
    /\ last.ret = "false"
    /\ DOMAIN unsealed # {}


\* C3: unseal of a seal changed in one position, by a store with the
\* password material the seal was made with, returns false: it never
\* returns true, never changes the bag and never throws.
C3_TamperDetection ==
    ( /\ last.op = "unseal"
      /\ last.from.kind = "tampered"
      /\ last.from.password = store.password )
    => last.ret = "false" /\ Bag = last.bag

\* a character of the prefix was changed, and unseal threw
C3_PrefixChangeThrows ==
    /\ last.op = "unseal"
    /\ last.from.kind = "tampered"
    /\ last.from.password = store.password
    /\ last.from.part = 1
    /\ Len(last.sealed.parts) = 8
    /\ last.ret = "throw"
    /\ last.err = "Wrong mac prefix"

\* C4: a failure of unseal other than an expired seal, a bad mac or an
\* unknown key id reaches the caller of unseal(), restore() or
\* getIronSession() as an error, never as false, and the bag is unchanged.
C4_FatalFailure ==
    ( /\ last.op \in {"unseal", "restore", "getIronSession"}
      /\ last.unseals = 1
      /\ last.err # ""
      /\ ~Recoverable(last) )
    => last.ret = "throw" /\ Bag = last.bag

\* getIronSession met a seal whose expiration is not a number, and the
\* caller got the error instead of a session
C4_FatalInGetIronSession ==
    /\ last.op = "getIronSession"
    /\ last.unseals = 1
    /\ last.err = "Invalid expiration"
    /\ last.ret = "throw"
    /\ session.status = "dropped"

\* the bag and the caller reach no cell in common
NoSharing == Reach(heap, RootsOf(unsealed)) \cap Reach(heap, held) = {}

\* C7: the bag shares no mutable value with a value the caller holds; a
\* mutation by the caller, of a value it gave to set() or got from get(),
\* changes nothing of what get() and seal() observe; and get() returns
\* the value of the bag.
C7_CopyIsolation ==
    /\ NoSharing
    /\ last.op = "mutate" => Bag = last.bag
    /\ last.op = "get" /\ last.value.t = "ref" =>
          \E k \in DOMAIN unsealed : ValueJson(heap, last.value) = Bag[k]

\* the caller changed the nested object of a value it holds while the bag
\* holds an object with a nested object
C7_NestedMutation ==
    /\ last.op = "mutate"
    /\ \E b \in held : heap[b].child = last.value.a
    /\ \E k \in DOMAIN unsealed :
          /\ unsealed[k].t = "ref"
          /\ heap[unsealed[k].a].child # 0

\* the cookie restore() reads
RequestCookie == getRequestCookie(req, session.cookieName)

\* C8 as stated: without a cookie of the configured name restore()
\* returns false without calling unseal; with one, it calls unseal once.
C8_RestoreAsStated ==
    last.op = "restore" =>
        IF RequestCookie = None
        THEN last.ret = "false" /\ last.unseals = 0 /\ Bag = last.bag
        ELSE last.unseals = 1

\* C8: without a cookie of the configured name, or with one whose value
\* is empty, restore() returns false without calling unseal and the bag
\* is unchanged; with a cookie that has a value, restore() calls unseal
\* once on that value and ends as unseal does.
C8_Restore ==
    last.op = "restore" =>
        IF RequestCookie = None \/ RequestCookie = Some(NoToken)
        THEN last.ret = "false" /\ last.err = "" /\ last.unseals = 0 /\ Bag = last.bag
        ELSE /\ last.unseals = 1
             /\ last.sealed = RequestCookie[1]
             /\ LET r == IronUnseal(RequestCookie[1], store.unsealPassword,
                                    store.sealOptions, last.at)
                IN  /\ last.err = r.err
                    /\ r.err = "" => last.ret = "true" /\ Bag = r.value
                    /\ r.err # "" =>
                          /\ last.ret = (IF Recoverable(last) THEN "false" ELSE "throw")
                          /\ Bag = last.bag

\* restore() found a sealed cookie and loaded its bag
C8_RestoredFromCookie ==
    /\ last.op = "restore"
    /\ RequestCookie # None
    /\ last.unseals = 1
    /\ last.ret = "true"
    /\ DOMAIN unsealed # {}

\* the cookie save() serializes from the seal it was given
SavedCookie == Serialize(session.cookieName, last.sealed, session.cookieOptions)

\* C9: save() throws when the serialized cookie is longer than 4096, and
\* then the Set-Cookie header and the bag are unchanged; when it is at
\* most 4096 long, save() succeeds and appends the whole of it.
C9_SizeCeiling ==
    last.op = "save" /\ last.sealed # NoToken =>
        IF SerializedLength(SavedCookie) > 4096
        THEN last.ret = "throw" /\ res = last.hdr /\ Bag = last.bag
        ELSE /\ last.ret = "void"
             /\ res.values = Append(last.hdr.values, SavedCookie)
             /\ Bag = last.bag

\* save() refused a cookie of 4097 characters, next to a Set-Cookie
\* header that other middleware wrote
C9_RefusedAboveCeiling ==
    /\ last.op = "save"
    /\ SerializedLength(SavedCookie) = 4097
    /\ last.ret = "throw"
    /\ last.err = "IronSession cookie length is too big: 4097"
    /\ res.values = <<ForeignCookie>>

\* save() wrote a cookie of exactly 4096 characters
AtCeiling ==
    /\ last.op = "save"
    /\ SerializedLength(SavedCookie) = 4096
    /\ last.ret = "void"

\* C10: after destroy() the bag is empty, and the response has one more
\* cookie, with the configured name, an empty value and max-age 0,
\* whatever time-to-live or max-age was configured.
C10_Destroy ==
    last.op = "destroy" =>
        /\ unsealed = EmptyBag
        /\ last.ret = "void"
        /\ Len(res.values) = Len(last.hdr.values) + 1
        /\ SubSeq(res.values, 1, Len(last.hdr.values)) = last.hdr.values
        /\ LET written == res.values[Len(res.values)]
           IN  /\ written.name = session.cookieName
               /\ written.value = NoToken
               /\ StartsWith(written.attributes, "; Max-Age=0;")

\* destroy() after set and save, on a session with a max-age of its own
C10_DestroyedAfterSave ==
    /\ last.op = "destroy"
    /\ DOMAIN last.bag # {}
    /\ session.cookieOptions.maxAge = Number(5)
    /\ Len(last.hdr.values) = 1
    /\ last.hdr.values[1].value # NoToken
    /\ last.hdr.values[1].name = session.cookieName


\* save() or destroy() has just succeeded
Wrote == last.op \in {"save", "destroy"} /\ last.ret = "void"

\* C11 as stated: a successful save() or destroy() appends exactly one
\* value to the Set-Cookie header and keeps every value that was there,
\* a single string or a list, unchanged and in order.
C11_AppendOnlyAsStated ==
    Wrote =>
        /\ Len(res.values) = Len(last.hdr.values) + 1
        /\ SubSeq(res.values, 1, Len(last.hdr.values)) = last.hdr.values

\* C11: a successful save() or destroy() appends exactly one value, the
\* cookie it serialized, to the Set-Cookie header and keeps every value
\* that was there, a list or a single string that is not empty, unchanged
\* and in order; a header that was the empty string counts as absent.
C11_AppendOnly ==
    Wrote =>
        LET before == IF last.hdr.kind = "string" /\ last.hdr.values[1].name = ""
                      THEN <<>> ELSE last.hdr.values
            written == res.values[Len(res.values)]
        IN  /\ res.kind = "array"
            /\ Len(res.values) = Len(before) + 1
            /\ SubSeq(res.values, 1, Len(before)) = before
            /\ written.name = session.cookieName
            /\ written.value = last.sealed

\* save() wrote next to the one string another middleware had set
C11_SavedNextToForeign ==
    /\ last.op = "save"
    /\ last.ret = "void"
    /\ last.hdr = [kind |-> "string", values |-> <<ForeignCookie>>]
    /\ Len(res.values) = 2
    /\ res.values[1] = ForeignCookie
    /\ res.values[2].value # NoToken

\* C18: with cookies parsed by the framework, restore() reads the session
\* cookie from that mapping only, also when the mapping lacks the name
\* and the raw Cookie header has it; without parsed cookies it reads the
\* raw Cookie header.
C18_ExtractionPriority ==
    last.op = "restore" =>
        IF req.cookies # None
        THEN IF session.cookieName \in DOMAIN req.cookies[1]
                /\ req.cookies[1][session.cookieName] # NoToken
             THEN last.unseals = 1 /\ last.sealed = req.cookies[1][session.cookieName]
             ELSE last.unseals = 0 /\ last.ret = "false" /\ Bag = last.bag
        ELSE LET found == ParsedCookie(req.header, session.cookieName)
             IN  IF found # None /\ found # Some(NoToken)
                 THEN last.unseals = 1 /\ last.sealed = found[1]
                 ELSE last.unseals = 0 /\ last.ret = "false"

\* restore() ignored a sealed cookie of the raw header because the parsed
\* cookies, which lack it, were there
C18_HeaderIgnored ==
    /\ last.op = "restore"
    /\ req.cookies # None
    /\ session.cookieName \notin DOMAIN req.cookies[1]
    /\ ParsedCookie(req.header, session.cookieName) # None
    /\ ParsedCookie(req.header, session.cookieName) # Some(NoToken)
    /\ last.unseals = 0
    /\ last.ret = "false"


\* the constructor has run and its caller has what it gave: the session,
\* or the error (getIronSession hands either over when its promise settles)
Constructed == session.given # None /\ session.status # "pending"

\* what the session at hand was constructed from
Given == session.given[1]
GivenName ==
    Given.options.cookieName # None /\ Given.options.cookieName[1] # ""
GivenPassword ==
    Given.options.password # None /\ PwLength(Given.options.password[1]) > 0
EnvName ==
    Given.env.IRON_SESSION_COOKIE_NAME # None /\ Given.env.IRON_SESSION_COOKIE_NAME[1] # ""
EnvPassword ==
    Given.env.IRON_SESSION_PASSWORD # None /\ Given.env.IRON_SESSION_PASSWORD[1] # ""

\* C12: a session is constructed with the cookie name and password of its
\* options when they are given (and not empty), with those of the
\* environment variables otherwise; when neither gives a value the
\* construction throws: there is no session and no store, nothing of the
\* request has been unsealed and nothing written to the response.
C12_ConfigResolution ==
    Constructed =>
        /\ session.status \in {"ready", "dropped", "error"}
        /\ session.status = "error" <=>
              ~(GivenName \/ EnvName) \/ ~(GivenPassword \/ EnvPassword)
        /\ session.status = "error" =>
              /\ session.err = IF ~(GivenName \/ EnvName)
                               THEN "Missing IronSession option: cookieName"
                               ELSE "Missing IronSession option: password"
              /\ store = NoStore
              /\ last.ret = "throw" /\ last.unseals = 0
              /\ unsealed = EmptyBag
              /\ res = NoResponse
        /\ session.status # "error" =>
              /\ session.cookieName =
                    IF GivenName THEN Given.options.cookieName[1]
                    ELSE Given.env.IRON_SESSION_COOKIE_NAME[1]
              /\ store.password =
                    IF GivenPassword THEN Given.options.password[1]
                    ELSE PwString(Given.env.IRON_SESSION_PASSWORD[1])

\* getIronSession, on a request that carries a sealed cookie, with a
\* cookie name but no password in options or environment
C12_NoPasswordAnywhere ==
    /\ session.given # None
    /\ last.op = "getIronSession"
    /\ GivenName /\ Given.options.password = None
    /\ Given.env.IRON_SESSION_PASSWORD = None
    /\ req.header # <<>> /\ req.header[1].value # NoToken
    /\ session.status = "error"

\* C13: an empty string or an empty list as password is refused by the
\* store constructor and, as the password option, by the session
\* constructor; a constructed store holds no empty seal or unseal
\* password material.
C13_EmptyPassword ==
    /\ store.status \in {"ready", "error"} /\ PwLength(store.password) = 0 =>
          store.status = "error" /\ store.err = EmptyPasswordError
    /\ store.status = "ready" =>
          /\ store.sealPassword.secret # ""
          /\ DOMAIN store.unsealPassword # {}
          /\ \A id \in DOMAIN store.unsealPassword : store.unsealPassword[id] # ""
    /\ ( /\ Constructed
         /\ Given.options.password # None
         /\ PwLength(Given.options.password[1]) = 0 )
       => session.status = "error"

\* a store constructed from a list whose only entry has an empty secret
C13_EmptySecretHeld ==
    /\ store.status = "ready"
    /\ store.password = PwList(<<Entry("1", "")>>)
    /\ store.sealPassword.secret = ""
    /\ last.op \in {"seal", "save"}
    /\ last.err = "Empty password"

\* the time-to-live and the max-age override the session was given
GivenTtl ==
    IF Given.options.ttl # None THEN Given.options.ttl[1] ELSE Number(2592000)
GivenMaxAge == Given.options.cookieOptions.maxAge

\* the cookie save() has just written
SaveWrote == session.given # None /\ last.op = "save" /\ last.ret = "void"
Written == res.values[Len(res.values)]

\* C14: the max-age of the cookie save() writes is the least of the
\* max-age override (when there is one), the time-to-live less 60, and
\* 2^31 - 1.
C14_MaxAgeFormula ==
    SaveWrote =>
        LET derived == Min(NumSub(GivenTtl, Number(60)), Number(2147483647))
            expected == IF GivenMaxAge = None THEN derived
                        ELSE Min(GivenMaxAge[1], derived)
        IN  StartsWith(Written.attributes, "; Max-Age=" \o NumToStr(expected) \o ";")

\* a time-to-live of 100 with a max-age override of 5000: Max-Age=5000
C14_OverrideAboveTtl ==
    /\ SaveWrote
    /\ GivenTtl = Number(100)
    /\ GivenMaxAge = Some(Number(5000))
    /\ StartsWith(Written.attributes, "; Max-Age=5000;")

\* C15: the max-age of every cookie save() writes is strictly smaller
\* than the time-to-live its seal was made with.
C15_ClientExpiresFirst ==
    SaveWrote =>
        /\ TimesThousand(session.cookieOptions.maxAge) # last.from.ttl
        /\ NumLeq(TimesThousand(session.cookieOptions.maxAge), last.from.ttl)

\* a cookie that lives 5000 seconds around a seal that lives 100
C15_CookieOutlivesSeal ==
    /\ SaveWrote
    /\ last.from.ttl = SecToMs(100)
    /\ session.cookieOptions.maxAge = Number(5000)

\* C16: the time-to-live the store passes to Iron is at most 2^31 - 1
\* seconds, (2^31 - 1) * 1000 milliseconds.
C16_TtlBound ==
    store.status = "ready" =>
        NumLeq(store.sealOptions.ttl, TimesThousand(Number(2147483647)))

\* a seal made with a time-to-live of 2^31 seconds
C16_SealedBeyondBound ==
    /\ last.op \in {"seal", "save"}
    /\ last.sealed # NoToken
    /\ last.from.ttl = TimesThousand(BeyondMaxTtl)
    /\ last.sealed.parts[6].text = "2147483748000"


\* password material that is one secret under the id "1": the secret as
\* a string, or the list of the single entry {id: "1", secret}
SingleSecret(password) ==
    IF password.kind = "string" THEN password.str
    ELSE IF Len(password.list) = 1 /\ password.list[1].id = "1"
    THEN password.list[1].secret
    ELSE ""

\* C17: with a secret string S as password, the seal id "1" is a key of
\* the unseal mapping, with secret S; stores configured with S or with
\* the list [{id: "1", secret: S}] accept their own and each other's
\* unexpired seals.
C17_SingleSecretId ==
    /\ store.status = "ready" /\ store.password.kind = "string" =>
          /\ store.sealPassword = Entry("1", store.password.str)
          /\ store.sealPassword.id \in DOMAIN store.unsealPassword
          /\ store.unsealPassword[store.sealPassword.id] = store.password.str
    /\ ( /\ last.op = "unseal"
         /\ last.from.kind = "sealed"
         /\ Unexpired(last.from)
         /\ Len(SingleSecret(store.password)) >= 32
         /\ SingleSecret(last.from.password) = SingleSecret(store.password) )
       => last.ret = "true" /\ Bag = last.from.bag

\* a store configured with the string accepted the seal of a store
\* configured with the list
C17_StringAcceptsList ==
    /\ last.op = "unseal"
    /\ store.password = PwString(SecretA)
    /\ last.from.password = PwList(<<Entry("1", SecretA)>>)
    /\ last.ret = "true"
    /\ DOMAIN unsealed # {}

\* a store configured with the list accepted the seal of a store
\* configured with the string
ListAcceptsString ==
    /\ last.op = "unseal"
    /\ store.password = PwList(<<Entry("1", SecretA)>>)
    /\ last.from.password = PwString(SecretA)
    /\ last.ret = "true"

\* C19: when unseal() or restore() returns true the bag is exactly what
\* the sealed string carries: nothing of the bag of before the call, and
\* nothing set, unset or cleared while the call was pending, is left.
C19_WholesaleReplace ==
    (last.op \in {"unseal", "restore"} /\ last.ret = "true") =>
        /\ last.from.kind = "sealed"
        /\ Bag = last.from.bag

\* restore() returned true after set() had changed the bag while it was
\* pending, and the key does not have the value that was set
C19_LostUpdate ==
    /\ last.op = "restore"
    /\ last.ret = "true"
    /\ "user" \in DOMAIN last.bag
    /\ last.bag # last.began
    /\ ("user" \notin DOMAIN Bag \/ Bag["user"] # last.bag["user"])

\* the name of the operation a step runs ("none" for a step of the world)
Ran == last'.op

\* the step leaves the Set-Cookie header as it was
SameHeader == res' = res

\* the step leaves the bag, as the caller can observe it, as it was
SameBag == Stringify(heap', unsealed') = Stringify(heap, unsealed)

\* C20: get, set, unset, clear and restore leave the Set-Cookie header
\* alone, and of all operations only save and destroy change it; get, seal
\* and save leave the bag alone; a save() that throws and a restore() that
\* returns false leave both alone.
C20_Frame ==
    [][ /\ Ran \in {"get", "set", "unset", "clear", "restore"} => SameHeader
        /\ (Ran # "none" /\ ~SameHeader) => Ran \in {"save", "destroy"}
        /\ Ran \in {"get", "seal", "save"} => SameBag
        /\ (Ran = "save" /\ last'.ret = "throw") => (SameBag /\ SameHeader)
        /\ (Ran = "restore" /\ last'.ret = "false") => (SameBag /\ SameHeader)
      ]_vars

\* save() has thrown on a bag too big for a cookie, next to a Set-Cookie
\* header another middleware wrote: the bag and the header are as before
C20_FailedSaveLeftAll ==
    /\ last.op = "save"
    /\ last.ret = "throw"
    /\ last.bag = Bag
    /\ DOMAIN unsealed # {}
    /\ last.hdr = res
    /\ res.values = <<ForeignCookie>>

\* restore() has returned false on a sealed cookie of another secret,
\* with a bag that is not empty
RestoreRefusedKeptBag ==
    /\ last.op = "restore"
    /\ last.ret = "false"
    /\ last.unseals = 1
    /\ last.bag = Bag
    /\ DOMAIN unsealed # {}
    /\ last.hdr = res

====
